---- MODULE Spec2Model ----
(***************************************************************************)
(* Harmony Navigator (app.py v4.1.1): the record store, the sessions of    *)
(* the Streamlit script main(), and the metrics engine                     *)
(* (calculate_metrics, calculate_ahp_weights, calculate_rhi_metrics,       *)
(* analyze_discrepancy).                                                   *)
(*                                                                         *)
(* Element names are the source's Japanese names in English; the source    *)
(* name is given beside each.  Numbers the source holds as floats are held *)
(* as integers with a stated scale.                                        *)
(***************************************************************************)
EXTENDS Integers, Sequences, FiniteSets, TLC

\* pd.NA / NaN in a numeric cell (every number a cell can hold is >= 0)
NA == 0 - 1

\* None in the session state
None == "None"

VARIABLES
    users,      \* the users sheet: the rows [username, password_hash], in sheet order
    data,       \* the data sheet: the record rows, in sheet order
    sheet_columns, \* the element columns the data sheet holds
    session,    \* st.session_state of each browser session
    today,      \* date.today(), in days
    call        \* the handler or engine function last run, with its inputs and what it gave

vars == <<users, data, sheet_columns, session, today, call>>

----------------------------------------------------------------------------
\* A. the domain schema (app.py 20-42)

DOMAINS == <<"health", "relationships", "meaning", "autonomy", "finance", "leisure", "competition">>

DomainSet == {DOMAINS[i] : i \in 1..Len(DOMAINS)}

\* health: suimin-to-kyusoku, shintaiteki-na-kaichousa; relationships: shinmitsu-na-kankei,
\* ritasei-kouken; meaning: shigoto-gakugyou-no-juujitsukan, kachi-to-no-icchi; autonomy:
\* jikoketteikan, jikoseichou-no-jikkan; finance: keizaiteki-na-anshinkan,
\* shokugyouteki-na-tasseikan; leisure: kokoro-no-heion, tanoshisa-yorokobi;
\* competition: yuuetsukan-shouri
SHORT_ELEMENTS == [
    health        |-> <<"sleep_and_rest", "physical_wellness">>,
    relationships |-> <<"close_relationships", "altruism_contribution">>,
    meaning       |-> <<"work_study_fulfilment", "value_alignment">>,
    autonomy      |-> <<"sense_of_self_determination", "self_growth">>,
    finance       |-> <<"financial_peace_of_mind", "occupational_achievement">>,
    leisure       |-> <<"peace_of_mind", "fun_joy">>,
    competition   |-> <<"superiority_victory">> ]

\* the deep-dive lists; the names shared with SHORT_ELEMENTS are exactly
\* altruism_contribution (ritasei-kouken), self_growth (jikoseichou-no-jikkan),
\* peace_of_mind (kokoro-no-heion) and superiority_victory (yuuetsukan-shouri)
LONG_ELEMENTS == [
    health        |-> <<"sleep", "meals", "exercise", "physical_comfort", "sensory_pleasure", "sexual_satisfaction">>,
    relationships |-> <<"family", "partner_romance", "friends", "social_recognition", "altruism_contribution", "empathy_connection">>,
    meaning       |-> <<"worthwhileness", "achievement", "belief_alignment", "career_outlook", "contribution_to_society", "competence">>,
    autonomy      |-> <<"freedom_self_determination", "challenge_adventure", "self_growth", "enjoying_change", "independence_self_trust", "curiosity">>,
    finance       |-> <<"financial_stability", "financial_leeway", "work_environment", "work_life_balance", "fair_evaluation", "job_stability">>,
    leisure       |-> <<"peace_of_mind", "self_esteem", "creativity", "gratitude", "entertainment_fun", "art_nature">>,
    competition   |-> <<"superiority_victory">> ]

Range(seq) == {seq[i] : i \in 1..Len(seq)}

\* the columns s_element_<e> of the deep-dive elements
ALL_ELEMENT_COLS == UNION {Range(LONG_ELEMENTS[d]) : d \in DomainSet}

\* EXPANDER_TEXTS: the keys the dictionary holds
EXPANDER_TEXTS == {"q_t", "s_t", "g_t", "event_log"}

\* active_elements / mode_string of the record form
ActiveElements(mode) == IF mode = "quick" THEN SHORT_ELEMENTS ELSE LONG_ELEMENTS

Modes == {"quick", "deep"}

----------------------------------------------------------------------------
\* arithmetic helpers

RECURSIVE SumOver(_, _)
SumOver(f, S) == IF S = {} THEN 0 ELSE LET x == CHOOSE y \in S : TRUE IN f[x] + SumOver(f, S \ {x})

Min(a, b) == IF a <= b THEN a ELSE b

Max(a, b) == IF a >= b THEN a ELSE b

\* numpy / Python round() of the non-negative rational num/den: to nearest, halves to even
RoundHalfEven(num, den) ==
    LET fl  == num \div den
        rem == num - fl * den
    IN  IF 2 * rem < den THEN fl
        ELSE IF 2 * rem > den THEN fl + 1
        ELSE IF fl % 2 = 0 THEN fl ELSE fl + 1

\* the natural logarithm: LnTable[n] = ln(n) * 10^6 for n in 1..256, rounded
LnTable == <<
    0, 693147, 1098612, 1386294, 1609438, 1791759, 1945910, 2079442, 2197225, 2302585, 2397895, 2484907,
    2564949, 2639057, 2708050, 2772589, 2833213, 2890372, 2944439, 2995732, 3044522, 3091042, 3135494, 3178054,
    3218876, 3258097, 3295837, 3332205, 3367296, 3401197, 3433987, 3465736, 3496508, 3526361, 3555348, 3583519,
    3610918, 3637586, 3663562, 3688879, 3713572, 3737670, 3761200, 3784190, 3806662, 3828641, 3850148, 3871201,
    3891820, 3912023, 3931826, 3951244, 3970292, 3988984, 4007333, 4025352, 4043051, 4060443, 4077537, 4094345,
    4110874, 4127134, 4143135, 4158883, 4174387, 4189655, 4204693, 4219508, 4234107, 4248495, 4262680, 4276666,
    4290459, 4304065, 4317488, 4330733, 4343805, 4356709, 4369448, 4382027, 4394449, 4406719, 4418841, 4430817,
    4442651, 4454347, 4465908, 4477337, 4488636, 4499810, 4510860, 4521789, 4532599, 4543295, 4553877, 4564348,
    4574711, 4584967, 4595120, 4605170, 4615121, 4624973, 4634729, 4644391, 4653960, 4663439, 4672829, 4682131,
    4691348, 4700480, 4709530, 4718499, 4727388, 4736198, 4744932, 4753590, 4762174, 4770685, 4779123, 4787492,
    4795791, 4804021, 4812184, 4820282, 4828314, 4836282, 4844187, 4852030, 4859812, 4867534, 4875197, 4882802,
    4890349, 4897840, 4905275, 4912655, 4919981, 4927254, 4934474, 4941642, 4948760, 4955827, 4962845, 4969813,
    4976734, 4983607, 4990433, 4997212, 5003946, 5010635, 5017280, 5023881, 5030438, 5036953, 5043425, 5049856,
    5056246, 5062595, 5068904, 5075174, 5081404, 5087596, 5093750, 5099866, 5105945, 5111988, 5117994, 5123964,
    5129899, 5135798, 5141664, 5147494, 5153292, 5159055, 5164786, 5170484, 5176150, 5181784, 5187386, 5192957,
    5198497, 5204007, 5209486, 5214936, 5220356, 5225747, 5231109, 5236442, 5241747, 5247024, 5252273, 5257495,
    5262690, 5267858, 5273000, 5278115, 5283204, 5288267, 5293305, 5298317, 5303305, 5308268, 5313206, 5318120,
    5323010, 5327876, 5332719, 5337538, 5342334, 5347108, 5351858, 5356586, 5361292, 5365976, 5370638, 5375278,
    5379897, 5384495, 5389072, 5393628, 5398163, 5402677, 5407172, 5411646, 5416100, 5420535, 5424950, 5429346,
    5433722, 5438079, 5442418, 5446737, 5451038, 5455321, 5459586, 5463832, 5468060, 5472271, 5476464, 5480639,
    5484797, 5488938, 5493061, 5497168, 5501258, 5505332, 5509388, 5513429, 5517453, 5521461, 5525453, 5529429,
    5533389, 5537334, 5541264, 5545177 >>

\* ln(m * p + r) * 10^6 for p = 2^k and 0 <= r < p: halve m down to the table, then
\* interpolate between two table entries (the error is below 10^-5)
RECURSIVE LnAcc(_, _, _, _)
LnAcc(m, r, p, k) ==
    IF m < 256
    THEN k * LnTable[2] + LnTable[m] + ((LnTable[m + 1] - LnTable[m]) * r) \div p
    ELSE LnAcc(m \div 2, r + (m % 2) * p, 2 * p, k + 1)

Ln6(n) == LnAcc(n, 0, 1, 0)

\* floor(b * d / B) for 0 <= b, 0 < B, without leaving 32 bits
MulDiv(b, d, B) ==
    LET hi == d \div 1000
        lo == d % 1000
        X  == b * hi
    IN  (X \div B) * 1000 + ((X % B) * 1000 + b * lo) \div B

\* integer square root: the largest r with r * r <= n
RECURSIVE SqrtBetween(_, _, _)
SqrtBetween(n, lo, hi) ==
    IF lo >= hi THEN lo
    ELSE LET mid == (lo + hi + 1) \div 2
         IN  IF mid * mid <= n THEN SqrtBetween(n, mid, hi) ELSE SqrtBetween(n, lo, mid - 1)

ISqrt(n) == SqrtBetween(n, 0, Min(n, 46340))

\* the sequences of at most n members of S
RECURSIVE SeqsUpTo(_, _)
SeqsUpTo(S, n) ==
    IF n = 0 THEN {<<>>}
    ELSE LET shorter == SeqsUpTo(S, n - 1)
         IN  shorter \cup {Append(w, x) : w \in {v \in shorter : Len(v) = n - 1}, x \in S}

----------------------------------------------------------------------------
\* B. the record a submission builds (app.py 624-643)

\* a cell of a row of the data sheet: a column the row does not hold reads as NaN
Cell(row, col) == IF col \in DOMAIN row.elems THEN row.elems[col] ELSE NA

\* new_record = {col: pd.NA for col in ALL_ELEMENT_COLS}; new_record.update(s_element_values)
ElementCells(s_element_values) ==
    [c \in ALL_ELEMENT_COLS \cup DOMAIN s_element_values |->
        IF c \in DOMAIN s_element_values THEN s_element_values[c] ELSE NA]

\* s_domain_scores['s_' + domain]: int(round(np.mean(domain_scores))) over the deep-dive
\* columns of the domain that hold a value, pd.NA when none does
SubmitDomainScore(cells, domain) ==
    LET domain_scores == {e \in Range(LONG_ELEMENTS[domain]) : cells[e] # NA}
    IN  IF domain_scores # {}
        THEN RoundHalfEven(SumOver(cells, domain_scores), Cardinality(domain_scores))
        ELSE NA

\* the row written for a submission; q holds v for the stored fraction v / 100.0
NewRecord(username, target_date, mode_string, consent, g_happiness, encrypted_log, q_values, s_element_values) ==
    LET cells == ElementCells(s_element_values)
    IN  [ username    |-> username,
          date        |-> target_date,
          mode        |-> mode_string,
          consent     |-> consent,
          g_happiness |-> g_happiness,
          event_log   |-> encrypted_log,
          q           |-> q_values,
          s           |-> [d \in DomainSet |-> SubmitDomainScore(cells, d)],
          elems       |-> cells ]

----------------------------------------------------------------------------
\* C. calculate_metrics (app.py 170-213)
\*    scores are held as integers: a domain score s as MeanScale * s, and S, U as
\*    ScoreScale * S, ScoreScale * U; H as 10 * ScoreScale * H (alpha is given in tenths)

\* divisible by every number of elements a domain can have (1..6)
MeanScale == 3 * 4 * 5

ScoreScale == 100 * MeanScale * 100

\* a float NaN result
NaN == NA

\* df_copy[col].fillna(0)
FillNa(x) == IF x = NA THEN 0 ELSE x

\* 180-183: df_copy['s_' + domain] = df_copy[element_cols].mean(axis=1, skipna=True) when
\* the frame holds a deep-dive column of the domain; the stored s_<domain> otherwise
DerivedDomainScore(row, columns, domain) ==
    LET element_cols == Range(LONG_ELEMENTS[domain]) \cap columns
        present      == {c \in element_cols : Cell(row, c) # NA}
        cells        == [c \in present |-> Cell(row, c)]
    IN  IF element_cols = {}
        THEN IF row.s[domain] = NA THEN NA ELSE MeanScale * row.s[domain]
        ELSE IF present = {} THEN NA
        ELSE SumOver(cells, present) * (MeanScale \div Cardinality(present))

\* FilledVector without the fillna(0): a missing value stays NaN
FilledVector_no_fillna(vec) == vec

\* 185-187: the q and s vectors after fillna(0)
FilledVector(vec) == [d \in DomainSet |-> FillNa(vec[d])]

\* 192: np.nansum(q_vectors * s_vectors_normalized): a NaN product is left out
Satisfaction(q_vec, s_vec) ==
    LET defined == {d \in DomainSet : q_vec[d] # NA /\ s_vec[d] # NA}
        product == [d \in defined |-> q_vec[d] * s_vec[d]]
    IN  SumOver(product, defined)

\* scipy's jensenshannon(p, q) ** 2 * 10^6 for p = a / A and q = b / B:
\* (sum_i p_i ln(p_i / m_i) + q_i ln(q_i / m_i)) / 2 with m = (p + q) / 2
JensenShannonDivergence(a, A, b, B) ==
    LET left  == [d \in DomainSet |->
                    IF a[d] = 0 THEN 0
                    ELSE MulDiv(a[d], Ln6(2 * a[d] * B) - Ln6(a[d] * B + b[d] * A), A)]
        right == [d \in DomainSet |->
                    IF b[d] = 0 THEN 0
                    ELSE MulDiv(b[d], Ln6(2 * b[d] * A) - Ln6(a[d] * B + b[d] * A), B)]
    IN  Max(0, (SumOver(left, DomainSet) + SumOver(right, DomainSet)) \div 2)

\* calculate_unity without the s_sum == 0 guard: s_vec_raw / 0 is NaN
calculate_unity_no_s_guard(q_vec, s_vec_raw) ==
    LET q_sum == SumOver(q_vec, DomainSet)
        s_sum == SumOver(s_vec_raw, DomainSet)
    IN  IF \E d \in DomainSet : q_vec[d] = NA \/ s_vec_raw[d] = NA THEN NaN
        ELSE IF q_sum = 0 THEN 0
        ELSE IF s_sum = 0 THEN NaN
        ELSE ScoreScale - (JensenShannonDivergence(q_vec, q_sum, s_vec_raw, s_sum) * 6) \div 10

\* 194-208: calculate_unity(row) on the vectors of the row, times ScoreScale
calculate_unity(q_vec, s_vec_raw) ==
    LET q_sum == SumOver(q_vec, DomainSet)
        s_sum == SumOver(s_vec_raw, DomainSet)
    IN  IF \E d \in DomainSet : q_vec[d] = NA \/ s_vec_raw[d] = NA THEN NaN
        ELSE IF q_sum = 0 THEN 0
        ELSE IF s_sum = 0 THEN 0
        ELSE ScoreScale - (JensenShannonDivergence(q_vec, q_sum, s_vec_raw, s_sum) * 6) \div 10

\* Harmony with the weights swapped: (1 - alpha) * S + alpha * U
Harmony_swapped(alpha10, S, U) == IF U = NaN THEN NaN ELSE (10 - alpha10) * S + alpha10 * U

\* 211: alpha * S + (1 - alpha) * U for alpha = alpha10 / 10, times 10 * ScoreScale
Harmony(alpha10, S, U) == IF U = NaN THEN NaN ELSE alpha10 * S + (10 - alpha10) * U

\* one row of the frame calculate_metrics returns
ScoreRow(row, columns, alpha10) ==
    LET s_raw == [d \in DomainSet |-> DerivedDomainScore(row, columns, d)]
        q_vec == FilledVector(row.q)
        s_vec == FilledVector(s_raw)
        S     == Satisfaction(q_vec, s_vec)
        U     == calculate_unity(q_vec, s_vec)
    IN  [ row |-> row, s |-> s_vec, q |-> q_vec, S |-> S, U |-> U, H |-> Harmony(alpha10, S, U) ]

\* the columns of a frame: every column some row holds
FrameColumns(df) == UNION {DOMAIN df[i].elems : i \in 1..Len(df)}

\* calculate_metrics filling a missing domain score with the mean of its column over the
\* frame, fillna(df[col].mean()), where the source fills it with 0
calculate_metrics_mean_filled(df, alpha10) ==
    IF df = <<>> THEN df
    ELSE LET cols     == FrameColumns(df)
             raw      == [i \in 1..Len(df) |-> [d \in DomainSet |-> DerivedDomainScore(df[i], cols, d)]]
             have(d)  == {i \in 1..Len(df) : raw[i][d] # NA}
             col_mean(d) == IF have(d) = {} THEN 0
                            ELSE SumOver([i \in have(d) |-> raw[i][d]], have(d)) \div Cardinality(have(d))
         IN  [i \in 1..Len(df) |->
                LET q_vec == FilledVector(df[i].q)
                    s_vec == [d \in DomainSet |-> IF raw[i][d] = NA THEN col_mean(d) ELSE raw[i][d]]
                    S     == Satisfaction(q_vec, s_vec)
                    U     == calculate_unity(q_vec, s_vec)
                IN  [ row |-> df[i], s |-> s_vec, q |-> q_vec, S |-> S, U |-> U, H |-> Harmony(alpha10, S, U) ]]

calculate_metrics(df, alpha10) ==
    IF df = <<>> THEN df
    ELSE [i \in 1..Len(df) |-> ScoreRow(df[i], FrameColumns(df), alpha10)]

\* 171: df_copy = df.copy(), and every assignment of 172-211 is to df_copy: the frame
\* the caller passed holds after the call what it held before
InputAfterMetrics(df, alpha10) == df

----------------------------------------------------------------------------
\* D. analyze_discrepancy and calculate_rhi_metrics (app.py 350-396)
\*    a frame is a sequence of rows, a row a function of its columns; H is held in
\*    hundredths (H = 0.37 as 37), so float(H) * 100.0 is the number held

\* the columns of a frame of scored rows
ColumnsOf(df) == IF df = <<>> THEN {} ELSE DOMAIN df[1]

\* analyze_discrepancy with gap >= threshold for the first class
analyze_discrepancy_inclusive(df_processed, threshold) ==
    IF df_processed = <<>> \/ "H" \notin ColumnsOf(df_processed) \/ "g_happiness" \notin ColumnsOf(df_processed)
    THEN {}
    ELSE LET latest_record == df_processed[Len(df_processed)]
             latest_h == IF latest_record.H # NA THEN latest_record.H ELSE 0
             latest_g == IF latest_record.g_happiness # NA THEN latest_record.g_happiness ELSE 0
             gap      == latest_g - latest_h
         IN  IF gap >= threshold THEN {"positive_surprise"}
             ELSE IF gap < 0 - threshold THEN {"hidden_dissatisfaction"}
             ELSE {"aligned"}

\* 350-387: the messages analyze_discrepancy shows: st.info (positive surprise),
\* st.warning (hidden dissatisfaction) or st.success (aligned); none on the early return
analyze_discrepancy(df_processed, threshold) ==
    IF df_processed = <<>> \/ "H" \notin ColumnsOf(df_processed) \/ "g_happiness" \notin ColumnsOf(df_processed)
    THEN {}
    ELSE LET latest_record == df_processed[Len(df_processed)]
             latest_h == IF latest_record.H # NA THEN latest_record.H ELSE 0
             latest_g == IF latest_record.g_happiness # NA THEN latest_record.g_happiness ELSE 0
             gap      == latest_g - latest_h
         IN  IF gap > threshold THEN {"positive_surprise"}
             ELSE IF gap < 0 - threshold THEN {"hidden_dissatisfaction"}
             ELSE {"aligned"}

\* a result number: the fraction <<numerator, denominator>>; the int 0 is <<0, 1>>
Zero == <<0, 1>>

ZeroResult == [mean_H |-> Zero, std_H |-> Zero, frac_below |-> Zero, RHI |-> Zero]

\* the statistics with the spread rewarded: RHI = mean_H + lambda * std_H - gamma * frac_below
WindowStatistics_spread_rewarded(df_period, lambda10, gamma10, tau100) ==
    LET n     == Len(df_period)
        idx   == 1..n
        sum   == SumOver([i \in idx |-> df_period[i].H], idx)
        sumsq == SumOver([i \in idx |-> df_period[i].H * df_period[i].H], idx)
        below == Cardinality({i \in idx : df_period[i].H < tau100})
        root  == ISqrt(100 * (n * sumsq - sum * sum))
    IN  [ mean_H     |-> <<sum, 100 * n>>,
          std_H      |-> <<root, 1000 * n>>,
          frac_below |-> <<below, n>>,
          RHI        |-> <<100 * sum + lambda10 * root - 1000 * gamma10 * below, 10000 * n>> ]

\* the statistics of a non-empty window, for lambda = lambda10 / 10, gamma = gamma10 / 10
\* and tau = tau100 / 100; std_H is the square root rounded down to a thousandth of H's unit
WindowStatistics(df_period, lambda10, gamma10, tau100) ==
    LET n     == Len(df_period)
        idx   == 1..n
        sum   == SumOver([i \in idx |-> df_period[i].H], idx)
        sumsq == SumOver([i \in idx |-> df_period[i].H * df_period[i].H], idx)
        below == Cardinality({i \in idx : df_period[i].H < tau100})
        root  == ISqrt(100 * (n * sumsq - sum * sum))
    IN  [ mean_H     |-> <<sum, 100 * n>>,
          std_H      |-> <<root, 1000 * n>>,
          frac_below |-> <<below, n>>,
          RHI        |-> <<100 * sum - lambda10 * root - 1000 * gamma10 * below, 10000 * n>> ]

\* calculate_rhi_metrics returning the zeroed result for a window of fewer than 7 rows too
calculate_rhi_metrics_zero_undersized(df_period, lambda10, gamma10, tau100) ==
    IF Len(df_period) < 7 \/ "H" \notin ColumnsOf(df_period)
    THEN ZeroResult
    ELSE WindowStatistics(df_period, lambda10, gamma10, tau100)

\* calculate_rhi_metrics without the guard: the mean of no value is NaN
calculate_rhi_metrics_no_guard(df_period, lambda10, gamma10, tau100) ==
    IF df_period = <<>> \/ "H" \notin ColumnsOf(df_period)
    THEN [mean_H |-> <<NaN, 1>>, std_H |-> <<NaN, 1>>, frac_below |-> <<NaN, 1>>, RHI |-> <<NaN, 1>>]
    ELSE WindowStatistics(df_period, lambda10, gamma10, tau100)

\* 389-396
calculate_rhi_metrics(df_period, lambda10, gamma10, tau100) ==
    IF df_period = <<>> \/ "H" \notin ColumnsOf(df_period)
    THEN ZeroResult
    ELSE WindowStatistics(df_period, lambda10, gamma10, tau100)

----------------------------------------------------------------------------
\* E. calculate_ahp_weights (app.py 215-242)
\*    a matrix entry is held as its exponent e, for the float 3.0^e: 1 for 3.0, 0 for 1.0,
\*    -1 for 1.0 / 3.0

\* itertools.combinations(items, 2), in its order
RECURSIVE PairsFrom(_, _, _)
PairsFrom(items, i, j) ==
    IF i >= Len(items) THEN <<>>
    ELSE IF j > Len(items) THEN PairsFrom(items, i + 1, i + 2)
    ELSE <<<<items[i], items[j]>>>> \o PairsFrom(items, i, j + 1)

Combinations(items) == PairsFrom(items, 1, 2)

\* 218: item_map
IndexOf(item) == CHOOSE i \in 1..Len(DOMAINS) : DOMAINS[i] = item

\* ComparisonMatrix setting matrix[i, j] alone, and not matrix[j, i]
ComparisonMatrix_one_sided(comparisons, items) ==
    [i \in 1..Len(items) |-> [j \in 1..Len(items) |->
        IF <<items[i], items[j]>> \in DOMAIN comparisons
        THEN LET winner == comparisons[<<items[i], items[j]>>]
             IN  IF winner = items[i] THEN 1 ELSE IF winner = items[j] THEN 0 - 1 ELSE 0
        ELSE 0]]

\* 217-227: np.ones((n, n)), then 3.0 and 1.0 / 3.0 for every pair whose winner is one
\* of its two items (comparisons holds each unordered pair at most once)
ComparisonMatrix(comparisons, items) ==
    [i \in 1..Len(items) |-> [j \in 1..Len(items) |->
        IF <<items[i], items[j]>> \in DOMAIN comparisons
        THEN LET winner == comparisons[<<items[i], items[j]>>]
             IN  IF winner = items[i] THEN 1 ELSE IF winner = items[j] THEN 0 - 1 ELSE 0
        ELSE IF <<items[j], items[i]>> \in DOMAIN comparisons
        THEN LET winner == comparisons[<<items[j], items[i]>>]
             IN  IF winner = items[j] THEN 0 - 1 ELSE IF winner = items[i] THEN 1 ELSE 0
        ELSE 0]]

\* 3 times the float of an entry: 1, 3 or 9
TimesThree(e) == IF e = 1 THEN 9 ELSE IF e = 0 THEN 3 ELSE 1

\* power-iteration steps taken for the principal eigenvector
PowerIterations == 20

\* the unit of the eigenvector's fixed-point components
EigenScale == 1000 * 1000

\* 229-231: the eigenvector of the eigenvalue of largest real part (the Perron vector of
\* the positive matrix), up to its scale: k steps v <- matrix * v from the all-ones
\* vector, rescaled at every step to a sum near EigenScale
RECURSIVE PowerIterate(_, _, _)
PowerIterate(matrix, v, k) ==
    IF k = 0 THEN v
    ELSE LET n == Len(v)
             w == [i \in 1..n |-> SumOver([j \in 1..n |-> TimesThree(matrix[i][j]) * v[j]], 1..n)]
             c == Max(1, SumOver(w, 1..n) \div EigenScale)
         IN  PowerIterate(matrix, [i \in 1..n |-> w[i] \div c], k - 1)

principal_eigenvector(matrix) ==
    PowerIterate(matrix, [i \in 1..Len(matrix) |-> EigenScale \div Len(matrix)], PowerIterations)

\* 232-237: weights = v / sum(v), clipped at 0, uniform when they sum to 0, then
\* (weights * 100).round().astype(int); a weight is held as its numerator over total
int_weights_of(matrix) ==
    LET v       == principal_eigenvector(matrix)
        n       == Len(v)
        total   == SumOver(v, 1..n)
        clipped == [i \in 1..n |-> Max(0, v[i])]
    IN  IF SumOver(clipped, 1..n) = 0
        THEN [i \in 1..n |-> RoundHalfEven(100, n)]
        ELSE [i \in 1..n |-> RoundHalfEven(100 * clipped[i], total)]

\* an argmax taking the last index of the largest component
ArgMax_last(vec) == CHOOSE i \in 1..Len(vec) :
    /\ \A j \in 1..Len(vec) : vec[j] <= vec[i]
    /\ \A j \in (i + 1)..Len(vec) : vec[j] < vec[i]

\* np.argmax: the first index of the largest component
ArgMax(vec) == CHOOSE i \in 1..Len(vec) :
    /\ \A j \in 1..Len(vec) : vec[j] <= vec[i]
    /\ \A j \in 1..(i - 1) : vec[j] < vec[i]

\* calculate_ahp_weights returning the rounded percentages as they are
calculate_ahp_weights_unpatched(comparisons, items) ==
    int_weights_of(ComparisonMatrix(comparisons, items))

\* calculate_ahp_weights handing the residual out one point a component, from the first
calculate_ahp_weights_spread(comparisons, items) ==
    LET int_weights == int_weights_of(ComparisonMatrix(comparisons, items))
        diff        == 100 - SumOver(int_weights, 1..Len(int_weights))
    IN  [i \in 1..Len(int_weights) |->
            IF i <= diff THEN int_weights[i] + 1
            ELSE IF i <= 0 - diff THEN int_weights[i] - 1
            ELSE int_weights[i]]

\* 215-242
calculate_ahp_weights(comparisons, items) ==
    LET int_weights == int_weights_of(ComparisonMatrix(comparisons, items))
        diff        == 100 - SumOver(int_weights, 1..Len(int_weights))
    IN  IF diff # 0
        THEN [int_weights EXCEPT ![ArgMax(int_weights)] = @ + diff]
        ELSE int_weights

----------------------------------------------------------------------------
\* F. the application: main() (app.py 399-746)
\*    one action is one run of the script for one event of one browser session: the
\*    sheets read at its start (425, 452, 478, 494) and written at its end (436, 654)

NoCall == [fn |-> "none"]

\* the usernames typed, in str order (the data sheet is sorted by username)
Usernames == <<"alice", "bob">>

NameRank(username) == CHOOSE i \in 1..Len(Usernames) : Usernames[i] = username

\* a password is the sequence of its characters
Chars(c, n) == [i \in 1..n |-> c]

\* the passwords typed: one of 8 characters and one of 7
Passwords == {Chars("a", 8), Chars("b", 7)}

\* 137-142: bcrypt.hashpw(password, salt); the salt does not change which password verifies
hash_password(password) == <<"bcrypt", password>>

\* 144-151: bcrypt.checkpw
check_password(password, hashed_password) == hashed_password = <<"bcrypt", password>>

\* 133-135: the manager is its key, sha256 of the password
EncryptionManager(password) == <<"sha256", password>>

\* 153-157: "" for no text, else the text xor-ed with the key (held as <<>> and as the
\* pair of key and text)
encrypt_log(enc_manager, log_text) == IF log_text = "" THEN <<>> ELSE <<enc_manager, log_text>>

Sessions == {1}

\* 400-403, 504-511: a session state with no key set, the wizard's keys at the values
\* they are given the first time they are read; <<>> is the None of enc_manager and of
\* q_values_from_wizard, and the empty dict of q_comparisons. With the session goes the
\* position of its run where runs of two sessions interleave: whether the run has read
\* the data sheet (494) and not yet written it, and the frame it read
FreshSession ==
    [ username |-> None, enc_manager |-> <<>>,
      wizard_mode |-> FALSE, q_wizard_step |-> 0, q_comparisons |-> <<>>,
      q_values_from_wizard |-> <<>>,
      reading |-> FALSE, all_data_df |-> [rows |-> <<>>, columns |-> {}] ]

\* 408: not st.session_state.username holds for None and for the empty string
Truthy(username) == username \notin {None, ""}

\* 408, 468: the branch of main() a session's run takes
AtDoor(s) == ~Truthy(session[s].username)

AtVault(s) == Truthy(session[s].username) /\ session[s].enc_manager = <<>>

\* the main application entered on the username alone
InMainApp_unlocked_or_not(s) == Truthy(session[s].username)

InMainApp(s) == Truthy(session[s].username) /\ session[s].enc_manager # <<>>

\* users_df[users_df['username'] == username]
UserRecord(users_df, username) == SelectSeq(users_df, LAMBDA r : r.username = username)

\* 424-442
Register(s, new_username, new_password, new_password_confirm) ==
    /\ AtDoor(s)
    /\ LET users_df == users
       IN  IF users_df # <<>> /\ \E i \in 1..Len(users_df) : users_df[i].username = new_username
           THEN /\ call' = [fn |-> "register", session |-> s, out |-> "error_username_taken"]
                /\ UNCHANGED <<users, session>>
           ELSE IF Len(new_password) < 8
           THEN /\ call' = [fn |-> "register", session |-> s, out |-> "error_password_short"]
                /\ UNCHANGED <<users, session>>
           ELSE IF new_password # new_password_confirm
           THEN /\ call' = [fn |-> "register", session |-> s, out |-> "error_password_mismatch"]
                /\ UNCHANGED <<users, session>>
           ELSE /\ users' = Append(users_df, [username |-> new_username,
                                              password_hash |-> hash_password(new_password)])
                /\ session' = [session EXCEPT ![s].username = new_username,
                                               ![s].enc_manager = EncryptionManager(new_password)]
                /\ call' = [fn |-> "register", session |-> s, out |-> "success"]
    /\ UNCHANGED <<data, sheet_columns, today>>

\* 451-463
Login(s, username_input, password_input) ==
    /\ AtDoor(s)
    /\ LET users_df    == users
           user_record == UserRecord(users_df, username_input)
       IN  IF users_df # <<>>
           THEN IF user_record # <<>> /\ check_password(password_input, user_record[1].password_hash)
                THEN /\ session' = [session EXCEPT ![s].username = username_input]
                     /\ call' = [fn |-> "login", session |-> s, out |-> "success"]
                ELSE /\ call' = [fn |-> "login", session |-> s, out |-> "error_wrong"]
                     /\ UNCHANGED session
           ELSE /\ call' = [fn |-> "login", session |-> s, out |-> "error_no_users"]
                /\ UNCHANGED session
    /\ UNCHANGED <<users, data, sheet_columns, today>>

\* 477-486
Unlock(s, password_for_decrypt) ==
    /\ AtVault(s)
    /\ LET user_record == UserRecord(users, session[s].username)
       IN  IF user_record # <<>> /\ check_password(password_for_decrypt, user_record[1].password_hash)
           THEN /\ session' = [session EXCEPT ![s].enc_manager = EncryptionManager(password_for_decrypt)]
                /\ call' = [fn |-> "unlock", session |-> s, out |-> "success"]
           ELSE /\ call' = [fn |-> "unlock", session |-> s, out |-> "error_wrong"]
                /\ UNCHANGED session
    /\ UNCHANGED <<users, data, sheet_columns, today>>

\* 489-492
Logout(s) ==
    /\ InMainApp(s)
    /\ session' = [session EXCEPT ![s] = FreshSession]
    /\ call' = [fn |-> "logout", session |-> s]
    /\ UNCHANGED <<users, data, sheet_columns, today>>

\* 494-498: all_data_df[all_data_df['username'] == username]
UserData(all_data_df, username) == SelectSeq(all_data_df, LAMBDA r : r.username = username)

\* 573-574: the days back the date input allows
DaysBack == 7

\* the dates picked in the date input: the earliest it allows and today
TargetDates == {today - DaysBack, today}

\* the scores set on the sliders of the form: `high` for the first element of every
\* domain and `low` for the others
AnswerOf(answers, elements, e) == IF elements[1] = e THEN answers.high ELSE answers.low

\* 586-606: s_element_values, one score for each element the mode shows
ElementValues(active_elements, answers) ==
    LET shown == UNION {Range(active_elements[d]) : d \in DomainSet}
    IN  [e \in shown |->
            LET d == CHOOSE x \in DomainSet : e \in Range(active_elements[x])
            IN  AnswerOf(answers, active_elements[d], e)]

\* the forms filled in: mode, element scores, G and event log
QuickEntry ==
    [input_mode |-> "quick", answers |-> [high |-> 80, low |-> 60], g_happiness |-> 30, event_log |-> ""]

DeepEntry ==
    [input_mode |-> "deep", answers |-> [high |-> 90, low |-> 40], g_happiness |-> 70, event_log |-> "calm day"]

\* 551: the sliders' defaults
DefaultQ == [d \in DomainSet |-> IF d = "competition" THEN 10 ELSE 15]

\* 553-557: the values set on the sidebar sliders, and the form filled in with them:
\* the defaults, another vector of sum 100 (29, 21 and five times 10), and vectors of
\* sum 99 and 105
Pages == {
    [entry |-> QuickEntry, q_values |-> DefaultQ],
    [entry |-> DeepEntry,  q_values |-> [d \in DomainSet |-> IF d = "health" THEN 29
                                                              ELSE IF d = "meaning" THEN 21 ELSE 10]],
    [entry |-> QuickEntry, q_values |-> [DefaultQ EXCEPT !["competition"] = 9]],
    [entry |-> DeepEntry,  q_values |-> [DefaultQ EXCEPT !["health"] = 20]] }

\* 549: int(val * 100) for the float val = v / 100.0 that a row holds for the percentage
\* v of 0..100: the double nearest to v / 100, times 100, is below v for 29, 57 and 58
\* (0.29 * 100 = 28.999999999999996), and int() truncates
PercentOfStored(v) == IF v \in {29, 57, 58} THEN v - 1 ELSE v

\* 548: user_data_df.sort_values(by='date').iloc[-1]
LatestRow(user_data_df) ==
    CHOOSE r \in Range(user_data_df) : \A x \in Range(user_data_df) : x.date <= r.date

\* 544-551: default_q_values, the values the sliders of 553-555 are given
default_q_values(q_values_from_wizard, user_data_df) ==
    IF q_values_from_wizard # <<>> THEN q_values_from_wizard
    ELSE IF user_data_df # <<>>
    THEN [d \in DomainSet |-> PercentOfStored(LatestRow(user_data_df).q[d])]
    ELSE DefaultQ

\* 522: pairs = list(itertools.combinations(DOMAINS, 2))
pairs == Combinations(DOMAINS)

\* 515-519: the run for a click on the button that starts the wizard
WizardStart(s) ==
    /\ InMainApp(s)
    /\ session' = [session EXCEPT ![s].wizard_mode = TRUE,
                                   ![s].q_wizard_step = 1,
                                   ![s].q_comparisons = <<>>]
    /\ call' = [fn |-> "wizard_start", session |-> s]
    /\ UNCHANGED <<users, data, sheet_columns, today>>

\* WizardAnswer leaving the step where it is
WizardAnswer_no_advance(s, button) ==
    /\ InMainApp(s)
    /\ session[s].wizard_mode
    /\ 0 < session[s].q_wizard_step /\ session[s].q_wizard_step <= Len(pairs)
    /\ LET pair   == pairs[session[s].q_wizard_step]
           winner == pair[button]
           before == session[s].q_comparisons
       IN  /\ session' = [session EXCEPT
                            ![s].q_comparisons = [pr \in DOMAIN before \cup {pair} |->
                                                     IF pr = pair THEN winner ELSE before[pr]]]
           /\ call' = [fn |-> "wizard_answer", session |-> s, pair |-> pair, winner |-> winner]
    /\ UNCHANGED <<users, data, sheet_columns, today>>

\* 523-535: the run for a click on one of the two buttons of the question shown
\* (button 1 is col1's, the pair's first domain; button 2 col2's, its second)
WizardAnswer(s, button) ==
    /\ InMainApp(s)
    /\ session[s].wizard_mode
    /\ 0 < session[s].q_wizard_step /\ session[s].q_wizard_step <= Len(pairs)
    /\ LET pair   == pairs[session[s].q_wizard_step]
           winner == pair[button]
           before == session[s].q_comparisons
       IN  /\ session' = [session EXCEPT
                            ![s].q_comparisons = [pr \in DOMAIN before \cup {pair} |->
                                                     IF pr = pair THEN winner ELSE before[pr]],
                            ![s].q_wizard_step = @ + 1]
           /\ call' = [fn |-> "wizard_answer", session |-> s, pair |-> pair, winner |-> winner]
    /\ UNCHANGED <<users, data, sheet_columns, today>>

\* 494-562: a run of the main application for no click (the run st.rerun() asks for,
\* or a reload): in wizard mode it shows the question of the step or, past the last
\* pair, solves the judgments, keeps the weights and leaves wizard mode; out of wizard
\* mode it gives the sliders their defaults and drops the wizard's weights
Rerun(s) ==
    /\ InMainApp(s)
    /\ LET user_data_df == UserData(data, session[s].username)
           step         == session[s].q_wizard_step
       IN  IF session[s].wizard_mode
           THEN IF 0 < step /\ step <= Len(pairs)
                THEN /\ call' = [fn |-> "rerun", session |-> s, out |-> "question", pair |-> pairs[step]]
                     /\ UNCHANGED session
                ELSE /\ call' = [fn |-> "rerun", session |-> s, out |-> "solved",
                                 estimated_weights |->
                                     calculate_ahp_weights(session[s].q_comparisons, DOMAINS)]
                     /\ session' = [session EXCEPT
                                      ![s].q_values_from_wizard =
                                          [d \in DomainSet |-> call'.estimated_weights[IndexOf(d)]],
                                      ![s].wizard_mode = FALSE]
           ELSE /\ call' = [fn |-> "rerun", session |-> s, out |-> "sliders",
                            from_wizard |-> session[s].q_values_from_wizard # <<>>,
                            default_q_values |->
                                default_q_values(session[s].q_values_from_wizard, user_data_df)]
                /\ session' = [session EXCEPT ![s].q_values_from_wizard = <<>>]
    /\ UNCHANGED <<users, data, sheet_columns, today>>

\* 590-593: the user's latest row, or 50 in every deep-dive column
\* 603: int(latest_s_elements.get(col_name, 50)), NA where int() raises ValueError on NaN
DefaultVal(user_data_df, columns, col_name) ==
    IF user_data_df = <<>> THEN 50
    ELSE IF col_name \in columns THEN Cell(user_data_df[Len(user_data_df)], col_name)
    ELSE 50

\* 595-606: the form is built when no default raises
FormRenders(user_data_df, columns, active_elements) ==
    \A d \in DomainSet : \A e \in Range(active_elements[d]) :
        DefaultVal(user_data_df, columns, e) # NA

\* the check of line 621 passing whatever the sum is
SumIs100_any(q_values) == TRUE

\* 621
SumIs100(q_values) == SumOver(q_values, DomainSet) = 100

\* all_data_df kept whole when a record is saved
WithoutRecordOf_keep(all_data_df, username, target_date) == all_data_df

\* 647-649: all_data_df[~condition]
WithoutRecordOf(all_data_df, username, target_date) ==
    SelectSeq(all_data_df, LAMBDA r : ~(r.username = username /\ r.date = target_date))

\* 652: the order of sort_values(by=['username', 'date'])
RowBefore(a, b) ==
    \/ NameRank(a.username) < NameRank(b.username)
    \/ a.username = b.username /\ a.date < b.date

\* 651-652: pd.concat([all_data_df, new_df_row]).sort_values(by=['username', 'date']),
\* for all_data_df in that order
RECURSIVE ConcatSorted(_, _)
ConcatSorted(all_data_df, new_df_row) ==
    IF all_data_df = <<>> THEN <<new_df_row>>
    ELSE IF RowBefore(new_df_row, Head(all_data_df)) THEN <<new_df_row>> \o all_data_df
    ELSE <<Head(all_data_df)>> \o ConcatSorted(Tail(all_data_df), new_df_row)

\* the most rows the data sheet holds where users come and go
MaxRecords == 3

\* 521-555: the name q_values in the run of a click on the form: the values of the
\* sliders, which only the branch for no wizard (543-555) builds; in wizard mode with a
\* question on screen (523-535) nothing is assigned to the name (<<>> for unbound)
BoundQValues(s, sliders) == IF session[s].wizard_mode THEN <<>> ELSE sliders

\* 521-541, 564-619: the run of a click on the form gets as far as the form: not in
\* wizard mode, or with one of the questions on screen (past the last pair the run ends
\* with st.rerun() at 541, before the tabs)
RunReachesForm(s) ==
    session[s].wizard_mode =>
        (0 < session[s].q_wizard_step /\ session[s].q_wizard_step <= Len(pairs))

\* 566-657: the handler of the form's submit button, run on the frame all_data_df that
\* read_data returned at 494 (its rows and its columns); call keeps the widget values of
\* the run, what it showed (the warning of 576-577 that the date already holds a record,
\* the error of 622 or the success of 655) and the rows it dropped at 649; with q_values
\* unbound the sum of line 621 raises NameError and the run ends there
SubmitRun(s, all_data_df, df_columns, target_date, entry, sliders) ==
    /\ RunReachesForm(s)
    /\ LET username        == session[s].username
           q_values        == BoundQValues(s, sliders)
           user_data_df    == UserData(all_data_df, username)
           active_elements == ActiveElements(entry.input_mode)
           s_element_values == ElementValues(active_elements, entry.answers)
           consent         == IF user_data_df # <<>> THEN user_data_df[Len(user_data_df)].consent ELSE FALSE
           new_record      == NewRecord(username, target_date, entry.input_mode, consent,
                                        entry.g_happiness,
                                        encrypt_log(session[s].enc_manager, entry.event_log),
                                        q_values, s_element_values)
           kept            == WithoutRecordOf(all_data_df, username, target_date)
           warned          == \E i \in 1..Len(user_data_df) : user_data_df[i].date = target_date
           shown           == [fn |-> "submit", session |-> s, target_date |-> target_date,
                               entry |-> entry, q_values |-> q_values, warned |-> warned]
       IN  /\ FormRenders(user_data_df, df_columns, active_elements)
           /\ IF q_values = <<>>
              THEN /\ call' = shown @@ [out |-> "NameError", replaced |-> <<>>]
                   /\ UNCHANGED <<data, sheet_columns>>
              ELSE IF ~SumIs100(q_values)
              THEN /\ call' = shown @@ [out |-> "error_q_total", replaced |-> <<>>]
                   /\ UNCHANGED <<data, sheet_columns>>
              ELSE /\ data' = ConcatSorted(kept, new_record)
                   /\ sheet_columns' = df_columns \cup DOMAIN new_record.elems
                   /\ call' = shown @@ [out |-> "success",
                                         replaced |-> SelectSeq(all_data_df, LAMBDA r : r \notin Range(kept))]

\* 494-657: the run for a click on the form's submit button, as one step: the sheet is
\* read and written with no other run in between; the sheet grows to MaxRecords rows
Submit(s, target_date, entry, q_values) ==
    /\ InMainApp(s)
    /\ SumIs100(q_values) =>
            Len(WithoutRecordOf(data, session[s].username, target_date)) < MaxRecords
    /\ SubmitRun(s, data, sheet_columns, target_date, entry, q_values)
    /\ UNCHANGED <<users, session, today>>

\* 494: the run for a click on the submit button has read the sheet; the frame is a
\* local of the run, kept with the session whose run it is
ReadData(s) ==
    /\ InMainApp(s)
    /\ ~session[s].reading
    /\ session' = [session EXCEPT ![s].reading = TRUE,
                                   ![s].all_data_df = [rows |-> data, columns |-> sheet_columns]]
    /\ call' = [fn |-> "read_data", session |-> s]
    /\ UNCHANGED <<users, data, sheet_columns, today>>

\* 566-657: the same run goes on to the handler and writes the frame it read, changed
SubmitAfterRead(s, target_date, entry, q_values) ==
    /\ InMainApp(s)
    /\ session[s].reading
    /\ SubmitRun(s, session[s].all_data_df.rows, session[s].all_data_df.columns,
                 target_date, entry, q_values)
    /\ session' = [session EXCEPT ![s].reading = FALSE,
                                   ![s].all_data_df = [rows |-> <<>>, columns |-> {}]]
    /\ UNCHANGED <<users, today>>

\* 659-662: tab2 opens with st.markdown(EXPANDER_TEXTS['dashboard']); a key the dict
\* does not hold raises KeyError and ends the run
DashboardOpens == "dashboard" \in EXPANDER_TEXTS

\* 710-727: tab3 and its delete_form are built after tab2, in the same run
DeleteFormRenders(s) == InMainApp(s) /\ DashboardOpens

\* 729-746: the run for a click on the delete form's button
DeleteAccount(s, password_for_delete) ==
    /\ DeleteFormRenders(s)
    /\ LET username    == session[s].username
           users_df    == users
           user_record == UserRecord(users_df, username)
       IN  IF user_record # <<>> /\ check_password(password_for_delete, user_record[1].password_hash)
           THEN /\ users' = SelectSeq(users_df, LAMBDA r : r.username # username)
                /\ data' = SelectSeq(data, LAMBDA r : r.username # username)
                /\ session' = [session EXCEPT ![s] = FreshSession]
                /\ call' = [fn |-> "delete", session |-> s, out |-> "success"]
           ELSE /\ call' = [fn |-> "delete", session |-> s, out |-> "error_wrong"]
                /\ UNCHANGED <<users, data, session>>
    /\ UNCHANGED <<sheet_columns, today>>

Init ==
    /\ users = <<>>
    /\ data = <<>>
    /\ sheet_columns = {}
    /\ session = [s \in Sessions |-> FreshSession]
    /\ today = 1
    /\ call = NoCall

\* DeleteAccount is no disjunct: with the EXPANDER_TEXTS of the source, DeleteFormRenders
\* holds in no state
Next ==
    \/ \E s \in Sessions, u \in Range(Usernames), p1 \in Passwords, p2 \in Passwords : Register(s, u, p1, p2)
    \/ \E s \in Sessions, u \in Range(Usernames), p \in Passwords : Login(s, u, p)
    \/ \E s \in Sessions, p \in Passwords : Unlock(s, p)
    \/ \E s \in Sessions : Logout(s)
    \/ \E s \in Sessions, d \in TargetDates, p \in Pages : Submit(s, d, p.entry, p.q_values)
    \/ \E s \in Sessions : Rerun(s)

Spec == Init /\ [][Next]_vars

----------------------------------------------------------------------------
\* the claims on the application

\* the rows of a frame for one username and date
RecordsAt(df, username, target_date) ==
    SelectSeq(df, LAMBDA r : r.username = username /\ r.date = target_date)

\* the row a submission alone determines: no field of it is read from the sheet
SubmittedRecord(s, target_date, entry, q_values) ==
    LET shown  == UNION {Range(ActiveElements(entry.input_mode)[d]) : d \in DomainSet}
        score  == [e \in shown |->
                      LET d == CHOOSE x \in DomainSet : e \in Range(ActiveElements(entry.input_mode)[x])
                      IN  IF ActiveElements(entry.input_mode)[d][1] = e
                          THEN entry.answers.high ELSE entry.answers.low]
        elems  == [c \in ALL_ELEMENT_COLS \cup shown |-> IF c \in shown THEN score[c] ELSE NA]
    IN  [ username    |-> session[s].username,
          date        |-> target_date,
          mode        |-> entry.input_mode,
          consent     |-> FALSE,
          g_happiness |-> entry.g_happiness,
          event_log   |-> IF entry.event_log = "" THEN <<>>
                          ELSE <<session[s].enc_manager, entry.event_log>>,
          q           |-> q_values,
          s           |-> [d \in DomainSet |-> SubmitDomainScore(elems, d)],
          elems       |-> elems ]

\* C1: the data sheet holds at most one row for a username and date, and a saved
\* submission leaves exactly the submitted row for its username and date (every field
\* from the submission, none from the row it replaces) and every other row as it was.
C1_OneRecordPerUserDate ==
    /\ [](\A i, j \in 1..Len(data) :
            (data[i].username = data[j].username /\ data[i].date = data[j].date) => i = j)
    /\ [][\A s \in Sessions, d \in TargetDates, p \in Pages :
            (/\ call'.fn = "submit" /\ call'.target_date = d
             /\ call'.entry = p.entry /\ call'.q_values = p.q_values
             /\ SumOver(p.q_values, DomainSet) = 100
             /\ Submit(s, d, p.entry, p.q_values)) =>
                /\ RecordsAt(data', session[s].username, d) = <<SubmittedRecord(s, d, p.entry, p.q_values)>>
                /\ \A i \in 1..Len(data) :
                      (data[i].username # session[s].username \/ data[i].date # d)
                          => data[i] \in Range(data')
                /\ Len(data') = Len(data) + (IF RecordsAt(data, session[s].username, d) = <<>> THEN 1 ELSE 0)
         ]_vars

\* a deep-dive row was replaced by a quick row that differs from it in mode, G, event
\* log and ideal vector, while the sheet held a row of another user
C1_Witness ==
    /\ call.fn = "submit"
    /\ call.out = "success"
    /\ call.warned
    /\ Len(call.replaced) = 1
    /\ \E i, j \in 1..Len(data) : data[i].username # data[j].username
    /\ \E i \in 1..Len(data) :
          LET old == call.replaced[1]
              new == data[i]
          IN  /\ new.username = old.username /\ new.date = old.date
              /\ old.mode = "deep" /\ new.mode = "quick"
              /\ old.g_happiness # new.g_happiness
              /\ old.event_log # <<>> /\ new.event_log = <<>>
              /\ old.q # new.q
              /\ old.elems["sleep"] # NA /\ new.elems["sleep"] = NA

\* C2 as claimed, the rounding of line 631 allowed for: for every stored row and every
\* domain, the domain score is defined and is the mean (rounded to an integer) of the
\* scores of the elements the row's mode shows for that domain.
C2_DomainScoreIsMeanOfAnswered ==
    \A i \in 1..Len(data) : \A d \in DomainSet :
        LET answered == Range(ActiveElements(data[i].mode)[d])
        IN  /\ data[i].s[d] # NA
            /\ data[i].s[d] = RoundHalfEven(SumOver(data[i].elems, answered), Cardinality(answered))

\* C3: every row of the data sheet holds an ideal vector of integer percentages that
\* sum to 100, and a submission whose seven weights do not sum to 100 shows the error
\* and leaves the data sheet as it was.
C3_IdealVectorSumsTo100 ==
    /\ [](\A i \in 1..Len(data) :
            /\ \A d \in DomainSet : data[i].q[d] \in 0..100
            /\ SumOver(data[i].q, DomainSet) = 100)
    /\ [][\A s \in Sessions, d \in TargetDates, p \in Pages :
            (/\ call'.fn = "submit" /\ call'.target_date = d
             /\ call'.entry = p.entry /\ call'.q_values = p.q_values
             /\ SumOver(p.q_values, DomainSet) # 100
             /\ Submit(s, d, p.entry, p.q_values)) =>
                /\ data' = data
                /\ call'.out = "error_q_total"
         ]_vars

\* a submission of total 99 was refused while the sheet held a row
C3_Witness ==
    /\ call.fn = "submit"
    /\ call.out = "error_q_total"
    /\ SumOver(call.q_values, DomainSet) = 99
    /\ data # <<>>
    /\ \A i \in 1..Len(data) : SumOver(data[i].q, DomainSet) = 100

\* C5 as claimed: in the main application the delete form can be submitted; with the
\* password that verifies it removes the user's entry and rows and keeps every other
\* user's, and with another password it leaves both sheets as they are.
C5_DeletionRemovesAccount ==
    \A s \in Sessions : InMainApp(s) =>
        \A p \in Passwords :
            LET username == session[s].username
                verified == \E i \in 1..Len(users) :
                                users[i].username = username /\ users[i].password_hash = <<"bcrypt", p>>
            IN  ENABLED ( /\ DeleteAccount(s, p)
                          /\ IF verified
                             THEN /\ users' = SelectSeq(users, LAMBDA r : r.username # username)
                                  /\ data' = SelectSeq(data, LAMBDA r : r.username # username)
                             ELSE users' = users /\ data' = data )

\* C19 as claimed: when the user has a stored record and no wizard result is pending,
\* the defaults the sliders are given are the ideal vector of the user's latest-dated
\* record, as integer percentages, and so sum to 100.
C19_DefaultIsLatestIdeal ==
    (/\ call.fn = "rerun"
     /\ call.out = "sliders"
     /\ ~call.from_wizard
     /\ UserData(data, session[call.session].username) # <<>>)
    => /\ call.default_q_values = LatestRow(UserData(data, session[call.session].username)).q
       /\ SumOver(call.default_q_values, DomainSet) = 100

----------------------------------------------------------------------------
\* the engine called on its own: calculate_metrics on a frame of one row

\* weights of a row: one domain's weight v, every other domain's weight rest
QVector(d1, v, rest) == [d \in DomainSet |-> IF d = d1 THEN v ELSE rest]

QCells == {NA, 0, 60}

QRest == {NA, 0, 10}

\* the element cells of a domain: none answered, all answered alike, or the first alone
Shapes == {"none", "zeros", "eighties", "first"}

ShapeCell(shape, domain, e) ==
    CASE shape = "none"     -> NA
      [] shape = "zeros"    -> 0
      [] shape = "eighties" -> 80
      [] OTHER              -> IF e = LONG_ELEMENTS[domain][1] THEN 100 ELSE NA

DomainOf(e) == CHOOSE d \in DomainSet : e \in Range(LONG_ELEMENTS[d])

ElemCells(d1, shape1, shapeRest) ==
    [e \in ALL_ELEMENT_COLS |->
        LET d == DomainOf(e) IN ShapeCell(IF d = d1 THEN shape1 ELSE shapeRest, d, e)]

\* a row as read_data returns it
InputRow(q, elems) ==
    [ username |-> "u", date |-> 1, mode |-> "deep", consent |-> FALSE, g_happiness |-> 50,
      event_log |-> "", q |-> q, s |-> [d \in DomainSet |-> NA], elems |-> elems ]

Alphas == {0, 6, 10}

\* a row as the submit handler writes it for a page
WrittenRow(p) ==
    NewRecord("u", 1, p.entry.input_mode, FALSE, p.entry.g_happiness, <<>>, p.q_values,
              ElementValues(ActiveElements(p.entry.input_mode), p.entry.answers))

\* the rows batches are made of: the quick and the deep row the handler writes, and
\* rows with weights and element scores missing
BatchRows ==
    { WrittenRow(p) : p \in {x \in Pages : SumIs100(x.q_values)} }
    \cup { InputRow(QVector("health", v, 10), ElemCells("meaning", sh, "first")) :
                v \in {NA, 60}, sh \in {"none", "zeros"} }

\* the most rows of a batch
MaxBatch == 2

\* the frames calculate_metrics is called on: no row, one row, or a batch of rows in
\* every order
MetricsFrames ==
    {<<>>} \cup
    { <<InputRow(QVector(d1, v, rest), ElemCells(d2, sh1, sh2))>> :
        d1 \in DomainSet, v \in QCells, rest \in QRest, d2 \in DomainSet, sh1 \in Shapes, sh2 \in Shapes }
    \cup { df \in SeqsUpTo(BatchRows, MaxBatch) : Len(df) >= 2 }

MetricsCalls ==
    { [fn |-> "calculate_metrics", done |-> FALSE, df |-> df, alpha |-> a, out |-> <<>>, after |-> <<>>] :
        df \in MetricsFrames, a \in Alphas }

\* df_processed = calculate_metrics(df, alpha)
CallMetrics ==
    /\ call.fn = "calculate_metrics"
    /\ ~call.done
    /\ call' = [call EXCEPT !.done = TRUE,
                            !.out = calculate_metrics(call.df, call.alpha),
                            !.after = InputAfterMetrics(call.df, call.alpha)]
    /\ UNCHANGED <<users, data, sheet_columns, session, today>>

InitStores ==
    /\ users = <<>>
    /\ data = <<>>
    /\ sheet_columns = {}
    /\ session = <<>>
    /\ today = 1

InitScoring == InitStores /\ call \in MetricsCalls

NextScoring == CallMetrics

SpecScoring == InitScoring /\ [][NextScoring]_vars

----------------------------------------------------------------------------
\* the claims on calculate_metrics

MetricsDone == call.fn = "calculate_metrics" /\ call.done

\* the ideal weights of a row, a missing weight as 0
IdealOrZero(row) == [d \in DomainSet |-> IF row.q[d] = NA THEN 0 ELSE row.q[d]]

\* MeanScale * the mean of the element scores a row holds for a domain, 0 when it holds none
MeanOrZero(row, domain) ==
    LET held == {e \in Range(LONG_ELEMENTS[domain]) : Cell(row, e) # NA}
    IN  IF held = {} THEN 0
        ELSE (SumOver([e \in held |-> Cell(row, e)], held) * MeanScale) \div Cardinality(held)

ScoresOrZero(row) == [d \in DomainSet |-> MeanOrZero(row, d)]

\* C6: Unity is exactly 0, and not an error value, whenever the ideal vector sums to 0
\* or the domain-score vector sums to 0, whatever the other vector is.
C6_UnityZeroOnZeroSum ==
    MetricsDone =>
        \A i \in 1..Len(call.df) :
            (\/ SumOver(IdealOrZero(call.df[i]), DomainSet) = 0
             \/ SumOver(ScoresOrZero(call.df[i]), DomainSet) = 0)
            => call.out[i].U = 0

\* a scored row whose weights do not sum to 0 and whose scores do, and one the other way round
C6_Witness ==
    /\ MetricsDone
    /\ Len(call.df) = 1
    /\ SumOver(IdealOrZero(call.df[1]), DomainSet) > 0
    /\ SumOver(ScoresOrZero(call.df[1]), DomainSet) = 0
    /\ \E d \in DomainSet : MeanOrZero(call.df[1], d) = 0 /\ \E e \in Range(LONG_ELEMENTS[d]) : Cell(call.df[1], e) = 0
    /\ call.out[1].U = 0

\* C7: a missing domain score and a missing ideal weight each count as 0: Satisfaction is
\* the sum of q_i * s_i over the zero-filled vectors, and Unity is computed on the
\* zero-filled seven-component vectors (a missing domain is not dropped from them).
C7_MissingCountsAsZero ==
    MetricsDone =>
        \A i \in 1..Len(call.df) :
            LET q0 == IdealOrZero(call.df[i])
                s0 == ScoresOrZero(call.df[i])
            IN  /\ call.out[i].S = SumOver([d \in DomainSet |-> q0[d] * s0[d]], DomainSet)
                /\ call.out[i].U = calculate_unity(q0, s0)
                /\ call.out[i].U # NaN

\* a scored row with a weighted domain that has no score and a scored domain that has no weight
C7_Witness ==
    /\ MetricsDone
    /\ Len(call.df) = 1
    /\ \E d \in DomainSet : call.df[1].q[d] = NA /\ MeanOrZero(call.df[1], d) > 0
    /\ \E d \in DomainSet : call.df[1].q[d] > 0 /\ \A e \in Range(LONG_ELEMENTS[d]) : Cell(call.df[1], e) = NA
    /\ call.out[1].S > 0
    /\ call.out[1].U > 0

\* C12: Harmony is a convex combination of Satisfaction and Unity: for every record
\* H = alpha * S + (1 - alpha) * U, so alpha = 1 gives H = S, alpha = 0 gives H = U, and
\* for alpha in [0, 1] H lies between S and U, hence in [0, 1] whenever S and U are.
\* (H is held times 10 * ScoreScale, S and U times ScoreScale, alpha in tenths.)
C12_HarmonyConvex ==
    MetricsDone =>
        \A i \in 1..Len(call.out) :
            LET S == call.out[i].S
                U == call.out[i].U
                H == call.out[i].H
            IN  /\ call.alpha \in 0..10
                /\ 10 * H = 10 * call.alpha * S + (100 - 10 * call.alpha) * U
                /\ call.alpha = 10 => H = 10 * S
                /\ call.alpha = 0 => H = 10 * U
                /\ 10 * Min(S, U) <= H
                /\ H <= 10 * Max(S, U)
                /\ (S \in 0..ScoreScale /\ U \in 0..ScoreScale) => H \in 0..(10 * ScoreScale)

\* a row scored with alpha = 0.6 whose S and U differ, both in [0, 1]: H is strictly between
C12_Witness ==
    /\ MetricsDone
    /\ Len(call.out) = 1
    /\ call.alpha = 6
    /\ call.out[1].S \in 1..ScoreScale
    /\ call.out[1].U \in 1..ScoreScale
    /\ call.out[1].S < call.out[1].U
    /\ 10 * call.out[1].S < call.out[1].H
    /\ call.out[1].H < 10 * call.out[1].U

\* the S, U and H of a scored row
ScoresOf(scored) == <<scored.S, scored.U, scored.H>>

----------------------------------------------------------------------------
\* the engine called on its own: analyze_discrepancy and calculate_rhi_metrics

\* the longest window drawn
MaxWindow == 4

HValues == {20, 50, 90}

\* windows of scored rows, and one window whose rows hold no H
Windows ==
    { [i \in 1..Len(w) |-> [H |-> w[i]]] : w \in SeqsUpTo(HValues, MaxWindow) }
    \cup { <<[S |-> 30]>> }

Lambdas == {0, 5, 20}

Gammas == {0, 10, 20}

Taus == {0, 50, 100}

RhiCalls ==
    { [fn |-> "calculate_rhi_metrics", done |-> FALSE, df |-> w, lambda |-> l, gamma |-> g, tau |-> tt, out |-> <<>>] :
        w \in Windows, l \in Lambdas, g \in Gammas, tt \in Taus }

\* rhi_results = calculate_rhi_metrics(df_period, lambda_param, gamma_param, tau_param)
CallRhi ==
    /\ call.fn = "calculate_rhi_metrics"
    /\ ~call.done
    /\ call' = [call EXCEPT !.done = TRUE,
                            !.out = calculate_rhi_metrics(call.df, call.lambda, call.gamma, call.tau)]
    /\ UNCHANGED <<users, data, sheet_columns, session, today>>

GValues == {NA, 0, 20, 29, 30, 31, 50, 70, 71, 100}

LatestH == {NA, 0, 50, 100}

Thresholds == {0, 20}

ScoredFrames ==
    {<<>>} \cup { <<[H |-> h, g_happiness |-> g]>> : h \in LatestH, g \in GValues }
    \cup { <<[H |-> 100, g_happiness |-> 0], [H |-> h, g_happiness |-> g]>> : h \in LatestH, g \in GValues }
    \cup { <<[H |-> 50]>> }

DiscrepancyCalls ==
    { [fn |-> "analyze_discrepancy", done |-> FALSE, df |-> df, threshold |-> th, out |-> <<>>] :
        df \in ScoredFrames, th \in Thresholds }

\* analyze_discrepancy(df_processed)
CallDiscrepancy ==
    /\ call.fn = "analyze_discrepancy"
    /\ ~call.done
    /\ call' = [call EXCEPT !.done = TRUE, !.out = analyze_discrepancy(call.df, call.threshold)]
    /\ UNCHANGED <<users, data, sheet_columns, session, today>>

InitRisk == InitStores /\ call \in RhiCalls \cup DiscrepancyCalls

NextRisk == CallRhi \/ CallDiscrepancy

SpecRisk == InitRisk /\ [][NextRisk]_vars

----------------------------------------------------------------------------
\* the claims on analyze_discrepancy and calculate_rhi_metrics

DiscrepancyDone == call.fn = "analyze_discrepancy" /\ call.done

\* G - 100 * H of the latest row (a missing G or H counting as 0, as the analyzer reads it)
GapOf(df) ==
    LET r == df[Len(df)]
    IN  (IF r.g_happiness = NA THEN 0 ELSE r.g_happiness) - (IF r.H = NA THEN 0 ELSE r.H)

Classified(df) == df # <<>> /\ {"H", "g_happiness"} \subseteq DOMAIN df[Len(df)]

\* C8: the classification is a strict partition of gap = G - 100 * H by the threshold:
\* gap > threshold is positive surprise, gap < -threshold is hidden dissatisfaction, every
\* other gap (gap = threshold and gap = -threshold among them) is aligned, and exactly one
\* class is reported.
C8_StrictPartition ==
    (DiscrepancyDone /\ Classified(call.df)) =>
        /\ Cardinality(call.out) = 1
        /\ ("positive_surprise" \in call.out) <=> (GapOf(call.df) > call.threshold)
        /\ ("hidden_dissatisfaction" \in call.out) <=> (GapOf(call.df) < 0 - call.threshold)
        /\ ("aligned" \in call.out) <=>
              (GapOf(call.df) <= call.threshold /\ GapOf(call.df) >= 0 - call.threshold)

\* a gap exactly at the threshold of 20 was classified aligned
C8_Witness ==
    /\ DiscrepancyDone
    /\ Classified(call.df)
    /\ call.threshold = 20
    /\ GapOf(call.df) = 20
    /\ call.out = {"aligned"}

RhiDone == call.fn = "calculate_rhi_metrics" /\ call.done

IsZero(x) == x[1] = 0

AllZero(r) == IsZero(r.mean_H) /\ IsZero(r.std_H) /\ IsZero(r.frac_below) /\ IsZero(r.RHI)

\* C9: for the empty window mean_H, std_H, frac_below and RHI are all 0, for any lambda,
\* gamma and tau.
C9_EmptyWindowZero == (RhiDone /\ call.df = <<>>) => AllZero(call.out)

\* the aggregator was called on the empty window with lambda > 0 and gamma > 0
C9_Witness == RhiDone /\ call.df = <<>> /\ call.lambda > 0 /\ call.gamma > 0 /\ AllZero(call.out)

\* the fewest records the dashboard asks for before it aggregates
MinRecords == 7

Undersized(df) == df # <<>> /\ Len(df) < MinRecords /\ "H" \in ColumnsOf(df)

\* C10 as claimed: a non-empty window of fewer than 7 records gives the zeroed result.
C10_UndersizedZeroed == (RhiDone /\ Undersized(call.df)) => AllZero(call.out)

\* C10 as amended: a non-empty window of fewer than 7 records gives the statistics of
\* its rows, as any window does: mean_H is their mean, frac_below the share of rows with
\* H < tau, std_H >= 0, and RHI = mean_H - lambda * std_H - gamma * frac_below.
C10_UndersizedAggregated ==
    (RhiDone /\ Undersized(call.df)) =>
        LET n   == Len(call.df)
            sum == SumOver([i \in 1..n |-> call.df[i].H], 1..n)
            sq  == SumOver([i \in 1..n |-> call.df[i].H * call.df[i].H], 1..n)
            cnt == Cardinality({i \in 1..n : call.df[i].H < call.tau})
            o   == call.out
        IN  /\ o.mean_H = <<sum, 100 * n>>
            /\ o.frac_below = <<cnt, n>>
            /\ o.std_H[2] = 1000 * n
            /\ o.std_H[1] >= 0
            /\ o.std_H[1] * o.std_H[1] <= 100 * (n * sq - sum * sum)
            /\ (o.std_H[1] + 1) * (o.std_H[1] + 1) > 100 * (n * sq - sum * sum)
            /\ o.RHI = <<100 * o.mean_H[1] - call.lambda * o.std_H[1] - 1000 * call.gamma * o.frac_below[1],
                         10000 * n>>

\* an undersized window whose result is not the zeroed one
C10_Witness ==
    /\ RhiDone
    /\ Undersized(call.df)
    /\ Len(call.df) = 3
    /\ call.out.mean_H[1] > 0
    /\ call.out.std_H[1] > 0
    /\ call.out.frac_below[1] > 0

\* the RHI of the call's window and tau under other parameters
RhiUnder(lambda10, gamma10) == calculate_rhi_metrics(call.df, lambda10, gamma10, call.tau).RHI

\* two results of one window (same denominator): a is at most b, a is below b
AtMost(a, b) == a[2] = b[2] /\ a[1] <= b[1]

Below(a, b) == a[2] = b[2] /\ a[1] < b[1]

----------------------------------------------------------------------------
\* the engine called on its own: calculate_ahp_weights on the seven domains

\* the most pairs of a judgment set that depart from its rule
MaxOverrides == 1

\* a judgment set: every pair judged by one rule (left unjudged, won by its first domain,
\* won by its second), but for the pairs of `over`, each with a winner of its own
\* (its first domain, its second, or a domain that is neither)
Rules == {"unjudged", "first", "second"}

Outsider(pair) == CHOOSE d \in DomainSet : d # pair[1] /\ d # pair[2]

WinnersOf(pair) == {pair[1], pair[2], Outsider(pair)}

PairSet == Range(Combinations(DOMAINS))

Judgments(rule, over) ==
    LET judged == IF rule = "unjudged" THEN DOMAIN over ELSE PairSet
    IN  [pr \in judged |->
            IF pr \in DOMAIN over THEN over[pr]
            ELSE IF rule = "first" THEN pr[1] ELSE pr[2]]

RECURSIVE OverridesUpTo(_)
OverridesUpTo(k) ==
    IF k = 0 THEN {<<>>}
    ELSE LET fewer == OverridesUpTo(k - 1)
         IN  fewer \cup
             { [pr \in DOMAIN o \cup {p2} |-> IF pr = p2 THEN w ELSE o[pr]] :
                 o \in {x \in fewer : Cardinality(DOMAIN x) = k - 1},
                 p2 \in PairSet, w \in DomainSet }

JudgmentSets ==
    { Judgments(rule, over) :
        rule \in Rules,
        over \in {o \in OverridesUpTo(MaxOverrides) : \A pr \in DOMAIN o : o[pr] \in WinnersOf(pr)} }

AhpCalls ==
    { [fn |-> "calculate_ahp_weights", done |-> FALSE, comparisons |-> c,
        matrix |-> <<>>, int_weights |-> <<>>, out |-> <<>>] : c \in JudgmentSets }

\* estimated_weights = calculate_ahp_weights(st.session_state.q_comparisons, DOMAINS);
\* matrix and int_weights keep the locals of lines 217-227 and 237, the comparison
\* matrix and the percentages as rounded
CallAhp ==
    /\ call.fn = "calculate_ahp_weights"
    /\ ~call.done
    /\ call' = [call EXCEPT !.done = TRUE,
                             !.matrix = ComparisonMatrix(call.comparisons, DOMAINS),
                             !.int_weights = int_weights_of(ComparisonMatrix(call.comparisons, DOMAINS)),
                             !.out = calculate_ahp_weights(call.comparisons, DOMAINS)]
    /\ UNCHANGED <<users, data, sheet_columns, session, today>>

InitAhp == InitStores /\ call \in AhpCalls

NextAhp == CallAhp

SpecAhp == InitAhp /\ [][NextAhp]_vars

----------------------------------------------------------------------------
\* the claims on calculate_ahp_weights

AhpDone == call.fn = "calculate_ahp_weights" /\ call.done

\* C4: for any judgment set (empty, partial or complete, any winners) the solver returns
\* one integer weight per domain and the weights sum to exactly 100.
C4_WeightsSumTo100 ==
    AhpDone =>
        /\ DOMAIN call.out = 1..Len(DOMAINS)
        /\ \A i \in 1..Len(DOMAINS) : call.out[i] \in Int
        /\ SumOver(call.out, 1..Len(DOMAINS)) = 100

\* a complete judgment set whose rounded percentages did not sum to 100 was solved
C4_Witness ==
    /\ AhpDone
    /\ DOMAIN call.comparisons = PairSet
    /\ SumOver(call.int_weights, 1..Len(DOMAINS)) # 100
    /\ SumOver(call.out, 1..Len(DOMAINS)) = 100

\* no entry of the comparison matrix departs from 1
AllOnes(comparisons) ==
    \A i, j \in 1..Len(DOMAINS) : ComparisonMatrix(comparisons, DOMAINS)[i][j] = 0

\* C14: for the empty judgment set (no pair judged, comparison matrix all 1s) the solver
\* returns the uniform split: every domain gets 14 except exactly one domain, which
\* absorbs the whole rounding residual, and the total is exactly 100.
C14_EmptySetUniform ==
    (AhpDone /\ AllOnes(call.comparisons)) =>
        /\ \A i \in 1..Len(DOMAINS) : call.int_weights[i] = 14
        /\ \E i \in 1..Len(DOMAINS) :
                /\ call.out[i] = 14 + (100 - Len(DOMAINS) * 14)
                /\ call.out[i] # 14
                /\ \A j \in 1..Len(DOMAINS) : j # i => call.out[j] = 14
        /\ SumOver(call.out, 1..Len(DOMAINS)) = 100

\* the empty judgment set was solved: one domain holds 16 and the six others 14
C14_Witness ==
    /\ AhpDone
    /\ DOMAIN call.comparisons = {}
    /\ Cardinality({i \in 1..Len(DOMAINS) : call.out[i] = 14}) = 6
    /\ Cardinality({i \in 1..Len(DOMAINS) : call.out[i] = 16}) = 1

\* C16: for any judgment set the comparison matrix is reciprocal with entries in
\* {1/3, 1, 3}: the diagonal is 1, M[i,j] * M[j,i] = 1 for all i, j, each judged pair has
\* M[winner,loser] = 3 and M[loser,winner] = 1/3, and every pair that is unjudged, or
\* whose recorded winner is neither of its two domains, stays at 1 in both directions.
\* (An entry is held as its exponent e, and TimesThree(e) is 3 * 3.0^e: 1, 3 or 9.)
C16_MatrixReciprocal ==
    AhpDone =>
        LET M == call.matrix
            n == Len(DOMAINS)
        IN  /\ \A i, j \in 1..n : TimesThree(M[i][j]) \in {1, 3, 9}
            /\ \A i \in 1..n : TimesThree(M[i][i]) = 3
            /\ \A i, j \in 1..n : TimesThree(M[i][j]) * TimesThree(M[j][i]) = 9
            /\ \A pr \in PairSet :
                    LET a == IndexOf(pr[1])
                        b == IndexOf(pr[2])
                    IN  IF pr \in DOMAIN call.comparisons /\ call.comparisons[pr] = pr[1]
                        THEN TimesThree(M[a][b]) = 9 /\ TimesThree(M[b][a]) = 1
                        ELSE IF pr \in DOMAIN call.comparisons /\ call.comparisons[pr] = pr[2]
                        THEN TimesThree(M[b][a]) = 9 /\ TimesThree(M[a][b]) = 1
                        ELSE TimesThree(M[a][b]) = 3 /\ TimesThree(M[b][a]) = 3

\* a matrix was built from a set with a pair won by its first domain and a pair whose
\* recorded winner is outside the pair
C16_Witness ==
    /\ AhpDone
    /\ \E pr \in PairSet :
            /\ pr \in DOMAIN call.comparisons
            /\ call.comparisons[pr] \notin {pr[1], pr[2]}
            /\ call.matrix[IndexOf(pr[1])][IndexOf(pr[2])] = 0
    /\ \E pr \in PairSet :
            /\ pr \in DOMAIN call.comparisons
            /\ call.comparisons[pr] = pr[1]
            /\ call.matrix[IndexOf(pr[1])][IndexOf(pr[2])] = 1
            /\ call.matrix[IndexOf(pr[2])][IndexOf(pr[1])] = 0 - 1

\* the rounded percentages of the call and what they leave to 100
Residual == 100 - SumOver(call.int_weights, 1..Len(DOMAINS))

\* the components that hold the largest rounded percentage
Largest == {i \in 1..Len(DOMAINS) : \A j \in 1..Len(DOMAINS) : call.int_weights[j] <= call.int_weights[i]}

\* C17: when the rounded percentages do not sum to 100 the solver adds the whole
\* residual (100 minus their sum) to exactly one component, the largest rounded one, the
\* first in domain order when several tie for largest; every other component keeps its
\* rounded value, and when the rounded values already sum to 100 nothing is changed.
C17_ResidualToFirstLargest ==
    AhpDone =>
        \A i \in 1..Len(DOMAINS) :
            IF Residual # 0 /\ i \in Largest /\ (\A j \in Largest : i <= j)
            THEN call.out[i] = call.int_weights[i] + Residual
            ELSE call.out[i] = call.int_weights[i]

\* rounded percentages that miss 100 and tie for largest: the first of them took the
\* residual and the others kept their value
C17_Witness ==
    /\ AhpDone
    /\ Residual # 0
    /\ Cardinality(Largest) > 1
    /\ call.out[1] = call.int_weights[1] + Residual
    /\ \A i \in Largest \ {1} : call.out[i] = call.int_weights[i]

----------------------------------------------------------------------------
\* the wizard, run by a user who has registered and is in the main application

\* the state Register leaves: one user, registered and unlocked, and no record
InitUnlocked ==
    /\ users = <<[username |-> Usernames[1], password_hash |-> hash_password(Chars("a", 8))]>>
    /\ data = <<>>
    /\ sheet_columns = {}
    /\ session = [s \in Sessions |->
                    [FreshSession EXCEPT !.username = Usernames[1],
                                         !.enc_manager = EncryptionManager(Chars("a", 8))]]
    /\ today = 1
    /\ call = NoCall

\* the most questions a user answers with the second button
MaxSecondChoices == 1

SecondChoices(s) ==
    Cardinality({pr \in DOMAIN session[s].q_comparisons : session[s].q_comparisons[pr] = pr[2]})

\* the run st.rerun() asks for at 541 comes before the next click: the wizard is not
\* started again while its weights wait to be offered
NextWizard ==
    \/ \E s \in Sessions : session[s].q_values_from_wizard = <<>> /\ WizardStart(s)
    \/ \E s \in Sessions, button \in {1, 2} :
            /\ button = 2 => SecondChoices(s) < MaxSecondChoices
            /\ WizardAnswer(s, button)
    \/ \E s \in Sessions : Rerun(s)

SpecWizard == InitUnlocked /\ [][NextWizard]_vars

\* the pairs the first k questions are about
Asked(k) == {pairs[i] : i \in 1..k}

\* C18: the wizard presents the 21 unordered domain pairs one at a time: starting it
\* resets the judgments to empty and the step to 1, each answer records as winner one of
\* the two domains of the current pair and advances the step by exactly one, the solver
\* is invoked only after all 21 pairs have a recorded winner, and then wizard mode ends
\* and the computed weights are offered as the default ideal vector.
C18_WizardWalksAllPairs ==
    /\ [](/\ Len(pairs) = 21
          /\ \A i, j \in 1..Len(pairs) :
                /\ pairs[i][1] # pairs[i][2]
                /\ i # j => {pairs[i][1], pairs[i][2]} # {pairs[j][1], pairs[j][2]}
          /\ \A s \in Sessions :
                session[s].wizard_mode =>
                    /\ session[s].q_wizard_step \in 1..(Len(pairs) + 1)
                    /\ DOMAIN session[s].q_comparisons = Asked(session[s].q_wizard_step - 1)
                    /\ \A pr \in DOMAIN session[s].q_comparisons :
                            session[s].q_comparisons[pr] \in {pr[1], pr[2]}
          /\ (call.fn = "rerun" /\ call.out = "question") =>
                call.pair = pairs[session[call.session].q_wizard_step])
    /\ [][\A s \in Sessions :
            /\ (call'.fn = "wizard_start" /\ WizardStart(s)) =>
                    /\ session'[s].wizard_mode
                    /\ session'[s].q_wizard_step = 1
                    /\ session'[s].q_comparisons = <<>>
            /\ \A button \in {1, 2} :
                    (call'.fn = "wizard_answer" /\ WizardAnswer(s, button)) =>
                        LET pair == pairs[session[s].q_wizard_step]
                        IN  /\ session'[s].q_wizard_step = session[s].q_wizard_step + 1
                            /\ DOMAIN session'[s].q_comparisons = DOMAIN session[s].q_comparisons \cup {pair}
                            /\ session'[s].q_comparisons[pair] = pair[button]
                            /\ \A pr \in DOMAIN session[s].q_comparisons :
                                    session'[s].q_comparisons[pr] = session[s].q_comparisons[pr]
            /\ (call'.fn = "rerun" /\ call'.out = "solved" /\ call'.session = s) =>
                    /\ DOMAIN session[s].q_comparisons = Asked(Len(pairs))
                    /\ \A pr \in Asked(Len(pairs)) : session[s].q_comparisons[pr] \in {pr[1], pr[2]}
                    /\ ~session'[s].wizard_mode
                    /\ call'.estimated_weights = calculate_ahp_weights(session[s].q_comparisons, DOMAINS)
                    /\ \A d \in DomainSet :
                            session'[s].q_values_from_wizard[d] = call'.estimated_weights[IndexOf(d)]
            /\ (call'.fn = "rerun" /\ call'.out = "sliders" /\ call'.session = s
                    /\ session[s].q_values_from_wizard # <<>>) =>
                    /\ ~session[s].wizard_mode
                    /\ call'.default_q_values = session[s].q_values_from_wizard
         ]_vars

\* the sliders were given the weights solved from 21 judgments, one of them for the
\* second domain of its pair
C18_Witness ==
    /\ call.fn = "rerun"
    /\ call.out = "sliders"
    /\ call.from_wizard
    /\ SumOver(call.default_q_values, DomainSet) = 100
    /\ \E s \in Sessions :
            /\ ~session[s].wizard_mode
            /\ DOMAIN session[s].q_comparisons = Asked(Len(pairs))
            /\ SecondChoices(s) = 1

----------------------------------------------------------------------------
\* two sessions whose runs interleave between the read of the data sheet and its write

ConcurrentSessions == {1, 2}

\* two users, registered and unlocked, each in a browser session of their own
InitConcurrent ==
    /\ users = [i \in 1..2 |-> [username |-> Usernames[i], password_hash |-> hash_password(Chars("a", 8))]]
    /\ data = <<>>
    /\ sheet_columns = {}
    /\ session = [s \in ConcurrentSessions |->
                    [FreshSession EXCEPT !.username = Usernames[s],
                                         !.enc_manager = EncryptionManager(Chars("a", 8))]]
    /\ today = 1
    /\ call = NoCall

NextConcurrent ==
    \/ \E s \in ConcurrentSessions : ReadData(s)
    \/ \E s \in ConcurrentSessions, p \in Pages : SubmitAfterRead(s, today, p.entry, p.q_values)

SpecConcurrent == InitConcurrent /\ [][NextConcurrent]_vars

\* the rows of a frame but those of one username and date
OtherRows(df, username, target_date) ==
    {r \in Range(df) : r.username # username \/ r.date # target_date}

\* C20 as claimed: a submission by one session only adds or replaces the record of that
\* session's username and target date; every record with another key, in particular
\* every record of another user, is the same in the store before and after the write,
\* also when another session wrote between this session's read and its write.
C20_OtherRecordsUntouched ==
    [][\A s \in ConcurrentSessions, p \in Pages :
            (/\ call'.fn = "submit"
             /\ call'.session = s
             /\ call'.entry = p.entry /\ call'.q_values = p.q_values
             /\ SubmitAfterRead(s, today, p.entry, p.q_values))
            => OtherRows(data', session[s].username, today) = OtherRows(data, session[s].username, today)
      ]_vars

----------------------------------------------------------------------------
\* the dashboard of a user who keeps a journal over the days the date input offers

\* 664, 667: user_data_df.dropna(subset=S_COLS, how='all')
Scored(user_data_df) ==
    SelectSeq(user_data_df, LAMBDA r : \E d \in DomainSet : r.s[d] # NA)

\* 673
period_options == <<7, 30, 90>>

\* 681: df_processed.tail(selected_period)
TailOf(df, n) == IF n >= Len(df) THEN df ELSE SubSeq(df, Len(df) - n + 1, Len(df))

\* 659-689: a run that builds tab2, with selected_period the option of the select box;
\* calculate_metrics is called with its default alpha of 0.6 (170) and df_period is the
\* frame handed to calculate_rhi_metrics at 689
ViewDashboard(s, selected_period) ==
    /\ InMainApp(s)
    /\ DashboardOpens
    /\ LET user_data_df  == UserData(data, session[s].username)
           df_to_process == Scored(user_data_df)
           df_processed  == calculate_metrics(df_to_process, 6)
           shown         == [fn |-> "dashboard", session |-> s]
       IN  IF df_to_process = <<>>
           THEN call' = shown @@ [out |-> "no_records"]
           ELSE IF Len(df_processed) < MinRecords
           THEN call' = shown @@ [out |-> "too_few_records"]
           ELSE /\ selected_period \in Range(period_options)
                /\ IF Len(df_processed) >= selected_period
                   THEN call' = shown @@ [out |-> "rhi", selected_period |-> selected_period,
                                          df_period |-> TailOf(df_processed, selected_period)]
                   ELSE call' = shown @@ [out |-> "period_too_long"]
    /\ UNCHANGED <<users, data, sheet_columns, session, today>>

\* 574: the dates the date input offers
JournalDates == (today - DaysBack)..today

\* the page entered for a day gone by
JournalPage == CHOOSE p \in Pages : p.entry.input_mode = "quick" /\ SumIs100(p.q_values)

\* what the user submits: any page for today, JournalPage for a day gone by
JournalEntries ==
    {e \in [date : JournalDates, page : Pages] : e.date = today \/ e.page = JournalPage}

\* ViewDashboard is no disjunct: with the EXPANDER_TEXTS of the source it is never enabled
NextJournal ==
    \/ \E s \in Sessions : ReadData(s)
    \/ \E s \in Sessions, e \in JournalEntries : SubmitAfterRead(s, e.date, e.page.entry, e.page.q_values)

SpecJournal == InitUnlocked /\ [][NextJournal]_vars

\* C15 as claimed: whatever submissions came before, back-dated ones and overwrites
\* among them, a user with enough scored records for a period N gets the dashboard, and
\* the window it passes to the Risk Aggregator is the user's N most recent scored
\* records by date, oldest first.
C15_WindowIsMostRecent ==
    \A s \in Sessions : \A n \in Range(period_options) :
        LET mine == Scored(UserData(data, session[s].username))
        IN  (InMainApp(s) /\ Len(mine) >= MinRecords /\ Len(mine) >= n) =>
                ENABLED ( /\ ViewDashboard(s, n)
                          /\ call'.out = "rhi"
                          /\ Len(call'.df_period) = n
                          /\ \A i \in 1..n : call'.df_period[i].row \in Range(mine)
                          /\ \A i \in 1..n, j \in 1..n :
                                i < j => call'.df_period[i].row.date < call'.df_period[j].row.date
                          /\ \A r \in Range(mine) :
                                \/ \E i \in 1..n : call'.df_period[i].row = r
                                \/ r.date < call'.df_period[1].row.date )

----------------------------------------------------------------------------
\* the daily form submitted by a user who also runs the wizard

\* the form is on screen once the reruns a click asked for are over (541, 546)
NextWizardForm ==
    \/ NextWizard
    \/ \E s \in Sessions :
            /\ session[s].q_values_from_wizard = <<>>
            /\ Submit(s, today, JournalPage.entry, JournalPage.q_values)

SpecWizardForm == InitUnlocked /\ [][NextWizardForm]_vars

\* C21 as claimed: whenever the daily form is submitted in an unlocked session, also
\* with the wizard in progress, the handler has an Ideal Vector q_values to check and
\* store, and the submission does not fail for lack of it.
C21_QValuesDefinedOnSubmit ==
    call.fn = "submit" => (call.q_values # <<>> /\ call.out # "NameError")

----------------------------------------------------------------------------
\* the doors of the application: registration, login, unlock and logout, with a username
\* left empty among the names typed and two passwords long enough to register with

AuthUsernames == {"", Usernames[1]}

AuthPasswords == Passwords \cup {Chars("c", 8)}

NextAuth ==
    \/ \E s \in Sessions, u \in AuthUsernames, p1 \in AuthPasswords, p2 \in AuthPasswords :
            Register(s, u, p1, p2)
    \/ \E s \in Sessions, u \in AuthUsernames, p \in AuthPasswords : Login(s, u, p)
    \/ \E s \in Sessions, p \in AuthPasswords : Unlock(s, p)
    \/ \E s \in Sessions : Logout(s)
    \/ \E s \in Sessions : Submit(s, today, JournalPage.entry, JournalPage.q_values)
    \/ \E s \in Sessions : Rerun(s)
    \/ \E s \in Sessions : session[s].q_values_from_wizard = <<>> /\ WizardStart(s)

SpecAuth == Init /\ [][NextAuth]_vars

\* what the handlers of the main application leave in call
MainAppCalls == {"logout", "read_data", "wizard_start", "wizard_answer", "rerun", "submit", "dashboard", "delete"}

\* the step is a registration that succeeded for session s
Registered(s) ==
    /\ call'.fn = "register" /\ call'.session = s /\ call'.out = "success"
    /\ \E p \in AuthPasswords :
            /\ users' = Append(users, [username |-> session'[s].username, password_hash |-> hash_password(p)])
            /\ session'[s].enc_manager = EncryptionManager(p)

\* the stored hash of a username verifies the password
Matches(username, p) ==
    /\ UserRecord(users, username) # <<>>
    /\ check_password(p, UserRecord(users, username)[1].password_hash)

\* C22: a handler of the main application runs only in a session that holds a username
\* and an encryption manager; a session's username is set only by a registration that
\* succeeded or by a login with a password the stored hash of that username verifies;
\* its encryption manager is set only by such a registration or by an unlock with a
\* password the stored hash of the session's username verifies; logout clears both.
C22_MainAppNeedsUserAndKey ==
    /\ [][call'.fn \in MainAppCalls =>
            (/\ Truthy(session[call'.session].username)
             /\ session[call'.session].enc_manager # <<>>)]_vars
    /\ [][\A s \in Sessions :
            (session'[s].username # session[s].username /\ session'[s].username # None) =>
                \/ Registered(s)
                \/ /\ call'.fn = "login" /\ call'.session = s /\ call'.out = "success"
                   /\ \E p \in AuthPasswords : /\ Login(s, session'[s].username, p)
                                                /\ Matches(session'[s].username, p)]_vars
    /\ [][\A s \in Sessions :
            (session'[s].enc_manager # session[s].enc_manager /\ session'[s].enc_manager # <<>>) =>
                \/ Registered(s)
                \/ /\ call'.fn = "unlock" /\ call'.session = s /\ call'.out = "success"
                   /\ session'[s].username = session[s].username
                   /\ \E p \in AuthPasswords : /\ session'[s].enc_manager = EncryptionManager(p)
                                                /\ Matches(session[s].username, p)]_vars
    /\ [][\A s \in Sessions :
            (call'.fn = "logout" /\ call'.session = s) =>
                (session'[s].username = None /\ session'[s].enc_manager = <<>>)]_vars

\* a session that entered the main application, saved a record there and has logged
\* out: it holds neither a username nor an encryption manager
C22_Witness ==
    /\ call.fn = "logout"
    /\ AtDoor(call.session)
    /\ session[call.session].enc_manager = <<>>
    /\ \E i \in 1..Len(data) : data[i].event_log = <<>> /\ data[i].username = Usernames[1]

====
